---- MODULE Spec2Model ----
(***************************************************************************)
(* Model of the argparser crate (src/src/lib.rs): the specification model  *)
(* (Flag, Argument, Parser), the usage renderer Parser::help and the       *)
(* token classifier Parser::parse.                                         *)
(*                                                                         *)
(* A Rust String is a sequence of one-character strings; a string literal  *)
(* of the source is kept as one element, so concatenation is \o.           *)
(***************************************************************************)
EXTENDS Integers, Sequences, FiniteSets, TLC

\* Longest token sequence the environment hands to parse (after the path).
MaxArgs == 5

----------------------------------------------------------------------------
(* Strings *)

UpperChars == <<"A","B","C","D","E","F","G","H","I","J","K","L","M",
                "N","O","P","Q","R","S","T","U","V","W","X","Y","Z">>

LowerChars == <<"a","b","c","d","e","f","g","h","i","j","k","l","m",
                "n","o","p","q","r","s","t","u","v","w","x","y","z">>

\* char::to_ascii_lowercase
LowerChar(c) ==
    IF \E i \in 1..26 : UpperChars[i] = c
    THEN LowerChars[CHOOSE i \in 1..26 : UpperChars[i] = c]
    ELSE c

\* str::to_ascii_lowercase
to_ascii_lowercase(s) == [i \in 1..Len(s) |-> LowerChar(s[i])]

\* IsMarker that takes a bare "-" for no marker
IsMarker_NotBare(arg) == Len(arg) > 1 /\ arg[1] = "-"

\* arg.chars().nth(0) == Some('-')
IsMarker(arg) == Len(arg) > 0 /\ arg[1] = "-"

\* arg[1..]
StripMarker(arg) == SubSeq(arg, 2, Len(arg))

----------------------------------------------------------------------------
(* Specification model *)

\* Flag::new
NewFlag == [title |-> <<>>, description |-> <<>>, options |-> <<>>]

\* create_flag whose loop stops one option early
create_flag_DropsLast(title, description, opts) ==
    [title |-> title, description |-> description,
     options |-> [i \in 1..(Len(opts) - 1) |-> opts[i]]]

\* create_flag
create_flag(title, description, opts) ==
    [title |-> title, description |-> description,
     options |-> [i \in 1..Len(opts) |-> opts[i]]]

\* create_arg
create_arg(title, description) ==
    [title |-> title, description |-> description]

\* create_parser
create_parser(project_title, project_description, fl, ar) ==
    [project_title |-> project_title,
     project_description |-> project_description,
     flags |-> fl, arguments |-> ar]

----------------------------------------------------------------------------
(* Usage renderer: Parser::help *)

RECURSIVE HelpOptions(_, _)
\* inner loop of help: "<" + option + "> " for each option slot
HelpOptions(opts, i) ==
    IF i > Len(opts) THEN <<>>
    ELSE <<"<">> \o opts[i] \o <<"> ">> \o HelpOptions(opts, i + 1)

RECURSIVE HelpFlags(_, _)
\* outer loop of help over self.flags
HelpFlags(fl, i) ==
    IF i > Len(fl) THEN <<>>
    ELSE <<"    -">> \o fl[i].title \o <<" ">>
         \o HelpOptions(fl[i].options, 1)
         \o <<":\n\t ">> \o fl[i].description \o <<"\n">>
         \o HelpFlags(fl, i + 1)

RECURSIVE HelpArgs(_, _)
\* loop of help over self.arguments
HelpArgs(ar, i) ==
    IF i > Len(ar) THEN <<>>
    ELSE <<"    ">> \o ar[i].title \o <<" :\n\t ">> \o ar[i].description
         \o <<"\n">> \o HelpArgs(ar, i + 1)

\* flag_str without the test of the number of flags
flag_str_NoGuard(p) ==
    <<" Options:\n">> \o HelpFlags(p.flags, 1) \o <<"\n">>

flag_str(p) ==
    IF Len(p.flags) > 0
    THEN <<" Options:\n">> \o HelpFlags(p.flags, 1) \o <<"\n">>
    ELSE <<>>

args_str(p) ==
    IF Len(p.arguments) > 0
    THEN <<" Arguments:\n">> \o HelpArgs(p.arguments, 1)
    ELSE <<>>

help(p) ==
    p.project_title \o <<", ">> \o p.project_description
    \o <<"\nUsage: -h for help:\n\n">> \o flag_str(p) \o args_str(p)

----------------------------------------------------------------------------
(* Parser::parse: the body of the loop as functions of the locals *)

\* No message printed, process not exited.
NoExit == [fmt |-> "", args |-> <<>>, code |-> 0]

\* Exit with the message printed but the loop left running
Exit_NoStop(s, fmt, fargs) ==
    [s EXCEPT !.exit = [fmt |-> fmt, args |-> fargs, code |-> 1]]

\* Exit that hands the result built so far back to the caller as well
Exit_ReturnsPartial(s, fmt, fargs) ==
    [s EXCEPT !.pc = "done",
              !.exit = [fmt |-> fmt, args |-> fargs, code |-> 1],
              !.ret = <<s.options>>]

\* println!(fmt, args...); process::exit(1)
Exit(s, fmt, fargs) ==
    [s EXCEPT !.pc = "exited",
              !.exit = [fmt |-> fmt, args |-> fargs, code |-> 1]]

DuplicateFlagFmt == "Flags may only be used once, duplicate flag: -{}...\n{}"
HelpFmt == "{}"
InvalidFlagFmt1 == "Invalid flag: '{}'...\n{}"
InvalidFlagFmt2 == "Invalid flag, '{}'...\n{}"
NoOptionFmt == "-{} does not take any arguments...\n{}"
DuplicateArgFmt == "Arguments may only be used once, duplicate argument: {}...\n{}"
UnknownArgFmt == "Uknown arg: '{}'...\n{}"

\* UsedFlagHit looking at the most recently used flag only
UsedFlagHit_LastOnly(s, arg_to_lower) ==
    /\ Len(s.used_flags) > 0
    /\ arg_to_lower = s.used_flags[Len(s.used_flags)].title

\* inner loop: does some used flag carry the title arg_to_lower
UsedFlagHit(s, arg_to_lower) ==
    \E j \in 1..Len(s.used_flags) : arg_to_lower = s.used_flags[j].title

RECURSIVE FlagLoop(_, _, _, _, _)
\* for flag in &self.flags { duplicate check; title match } and the
\* "h" / invalid-flag tail that follows the loop
FlagLoop(p, s, arg_to_lower, i, invalid_fmt) ==
    IF i > Len(p.flags)
    THEN IF arg_to_lower = <<"h">>
         THEN Exit(s, HelpFmt, <<help(p)>>)
         ELSE Exit(s, invalid_fmt, <<arg_to_lower, help(p)>>)
    ELSE IF UsedFlagHit(s, arg_to_lower)
         THEN Exit(s, DuplicateFlagFmt, <<arg_to_lower, help(p)>>)
         ELSE IF arg_to_lower = p.flags[i].title
              THEN [s EXCEPT !.current_flag = p.flags[i],
                             !.used_flags = Append(@, p.flags[i]),
                             !.parsed = FALSE]
              ELSE FlagLoop(p, s, arg_to_lower, i + 1, invalid_fmt)

\* first branch: marker token while !is_option
FlagBranch(p, s, arg) ==
    FlagLoop(p, [s EXCEPT !.is_option = TRUE],
             to_ascii_lowercase(StripMarker(arg)), 1, InvalidFlagFmt1)

\* FlagAfterFlagBranch with -h treated as an invalid flag
FlagAfterFlagBranch_NoHelp(p, s, arg) ==
    LET s1 == [s EXCEPT !.options.flags =
                           Append(@, <<s.current_flag.title, <<>> >>)]
        r == FlagLoop(p, s1, to_ascii_lowercase(StripMarker(arg)), 1,
                      InvalidFlagFmt2)
    IN IF r.exit.fmt = HelpFmt
       THEN Exit(s1, InvalidFlagFmt2,
                 <<to_ascii_lowercase(StripMarker(arg)), help(p)>>)
       ELSE r

\* FlagAfterFlagBranch without the push of the current flag
FlagAfterFlagBranch_NoPush(p, s, arg) ==
    FlagLoop(p, s, to_ascii_lowercase(StripMarker(arg)), 1, InvalidFlagFmt2)

\* second branch: marker token while is_option
FlagAfterFlagBranch(p, s, arg) ==
    FlagLoop(p,
             [s EXCEPT !.options.flags =
                          Append(@, <<s.current_flag.title, <<>> >>)],
             to_ascii_lowercase(StripMarker(arg)), 1, InvalidFlagFmt2)

\* UsedArgHit looking at the first used argument only
UsedArgHit_FirstOnly(s, arg_to_lower) ==
    /\ Len(s.used_args) > 0
    /\ arg_to_lower = s.used_args[1].title

\* inner loop: does some used argument carry the title arg_to_lower
UsedArgHit(s, arg_to_lower) ==
    \E j \in 1..Len(s.used_args) : arg_to_lower = s.used_args[j].title

RECURSIVE ArgLoop_FoldTitle(_, _, _, _, _)
\* ArgLoop with the declared title lower-cased before the comparison
ArgLoop_FoldTitle(p, s, arg, arg_to_lower, i) ==
    IF i > Len(p.arguments)
    THEN Exit(s, UnknownArgFmt, <<arg, help(p)>>)
    ELSE IF UsedArgHit(s, arg_to_lower)
         THEN Exit(s, DuplicateArgFmt, <<arg_to_lower, help(p)>>)
         ELSE IF to_ascii_lowercase(p.arguments[i].title) = arg_to_lower
              THEN [s EXCEPT !.options.arguments =
                                Append(@, p.arguments[i].title),
                             !.used_args = Append(@, p.arguments[i])]
              ELSE ArgLoop_FoldTitle(p, s, arg, arg_to_lower, i + 1)

RECURSIVE ArgLoop(_, _, _, _, _)
\* for parser_arg in &self.arguments { duplicate check; title match } and
\* the unknown-argument tail that follows the loop
ArgLoop(p, s, arg, arg_to_lower, i) ==
    IF i > Len(p.arguments)
    THEN Exit(s, UnknownArgFmt, <<arg, help(p)>>)
    ELSE IF UsedArgHit(s, arg_to_lower)
         THEN Exit(s, DuplicateArgFmt, <<arg_to_lower, help(p)>>)
         ELSE IF p.arguments[i].title = arg_to_lower
              THEN [s EXCEPT !.options.arguments =
                                Append(@, p.arguments[i].title),
                             !.used_args = Append(@, p.arguments[i])]
              ELSE ArgLoop(p, s, arg, arg_to_lower, i + 1)

\* ArgumentBranch that skips a token matching no argument
ArgumentBranch_SkipUnknown(p, s, arg) ==
    LET r == ArgLoop(p, s, arg, to_ascii_lowercase(arg), 1)
    IN IF r.exit.fmt = UnknownArgFmt THEN s ELSE r

\* ArgumentBranch putting a recognized argument in front of the list
ArgumentBranch_Prepend(p, s, arg) ==
    LET r == ArgLoop(p, s, arg, to_ascii_lowercase(arg), 1)
    IN IF r.pc = "loop"
       THEN [r EXCEPT !.options.arguments =
                         <<to_ascii_lowercase(arg)>> \o s.options.arguments]
       ELSE r

\* fourth branch: non-marker token while !is_option
ArgumentBranch(p, s, arg) ==
    ArgLoop(p, s, arg, to_ascii_lowercase(arg), 1)

\* OptionBranch without the check of the number of option slots
OptionBranch_NoSlotCheck(p, s, arg) ==
    [s EXCEPT !.options.flags =
                 Append(@, <<s.current_flag.title, to_ascii_lowercase(arg)>>),
              !.parsed = TRUE,
              !.is_option = FALSE]

\* OptionBranch reporting the token instead of the current flag
OptionBranch_ReportArg(p, s, arg) ==
    IF Len(s.current_flag.options) = 0
    THEN Exit(s, NoOptionFmt, <<arg, help(p)>>)
    ELSE OptionBranch_NoSlotCheck(p, s, arg)

\* OptionBranch handing the token after a zero-slot flag to ArgumentBranch
OptionBranch_AsArgument(p, s, arg) ==
    IF Len(s.current_flag.options) = 0
    THEN ArgumentBranch(p, [s EXCEPT !.is_option = FALSE], arg)
    ELSE OptionBranch_NoSlotCheck(p, s, arg)

\* OptionBranch that keeps awaiting options while slots are left
OptionBranch_MultiSlot(p, s, arg) ==
    IF Len(s.current_flag.options) = 0
    THEN Exit(s, NoOptionFmt, <<s.current_flag.title, help(p)>>)
    ELSE LET taken == Cardinality({k \in 1..Len(s.options.flags) :
                         s.options.flags[k][1] = s.current_flag.title})
         IN [s EXCEPT !.options.flags =
                         Append(@, <<s.current_flag.title,
                                     to_ascii_lowercase(arg)>>),
                      !.parsed = TRUE,
                      !.is_option =
                         (taken + 1 < Len(s.current_flag.options))]

\* OptionBranch that also marks an argument named by the option value used
OptionBranch_MarksArgUsed(p, s, arg) ==
    IF Len(s.current_flag.options) = 0
    THEN Exit(s, NoOptionFmt, <<s.current_flag.title, help(p)>>)
    ELSE LET hits == {k \in 1..Len(p.arguments) :
                         p.arguments[k].title = to_ascii_lowercase(arg)}
             r == OptionBranch_NoSlotCheck(p, s, arg)
         IN IF hits = {}
            THEN r
            ELSE [r EXCEPT !.used_args =
                              Append(@, p.arguments[CHOOSE k \in hits : TRUE])]

\* third branch: non-marker token while is_option
OptionBranch(p, s, arg) ==
    IF Len(s.current_flag.options) = 0
    THEN Exit(s, NoOptionFmt, <<s.current_flag.title, help(p)>>)
    ELSE [s EXCEPT !.options.flags =
                      Append(@, <<s.current_flag.title,
                                  to_ascii_lowercase(arg)>>),
                   !.parsed = TRUE,
                   !.is_option = FALSE]

\* one iteration of 'args: for arg in args
LoopBody(p, s, arg) ==
    IF IsMarker(arg) /\ ~s.is_option THEN FlagBranch(p, s, arg)
    ELSE IF IsMarker(arg) /\ s.is_option THEN FlagAfterFlagBranch(p, s, arg)
    ELSE IF ~IsMarker(arg) /\ s.is_option THEN OptionBranch(p, s, arg)
    ELSE ArgumentBranch(p, s, arg)

\* AfterLoop without the final push
AfterLoop_NoFinalPush(s) ==
    [s EXCEPT !.pc = "done", !.ret = <<s.options>>]

\* AfterLoop pushing the current flag whether or not it was recorded
AfterLoop_AlwaysPush(s) ==
    LET o == [s.options EXCEPT !.flags =
                 Append(@, <<s.current_flag.title, <<>> >>)]
    IN [s EXCEPT !.pc = "done", !.options = o, !.ret = <<o>>]

\* after the loop: if !parsed { push (current_flag.title, "") }; options
AfterLoop(s) ==
    LET o == IF ~s.parsed
             THEN [s.options EXCEPT !.flags =
                       Append(@, <<s.current_flag.title, <<>> >>)]
             ELSE s.options
    IN [s EXCEPT !.pc = "done", !.options = o, !.ret = <<o>>]

\* the locals of parse right before the loop
InitLocals ==
    [pc |-> "loop",
     is_option |-> FALSE,
     parsed |-> FALSE,
     current_flag |-> NewFlag,
     used_flags |-> <<>>,
     used_args |-> <<>>,
     options |-> [flags |-> <<>>, arguments |-> <<>>],
     exit |-> NoExit,
     ret |-> <<>>]

RECURSIVE parse_from(_, _, _, _)
\* parse run to its end on a whole token sequence: the loop stops at the
\* first process::exit; n counts the tokens taken from the iterator
parse_from(p, s, toks, n) ==
    IF s.pc # "loop" THEN [s |-> s, n |-> n]
    ELSE IF toks = <<>> THEN [s |-> AfterLoop(s), n |-> n]
    ELSE parse_from(p, LoopBody(p, s, Head(toks)), Tail(toks), n + 1)

parse(p, toks) == parse_from(p, InitLocals, toks, 0)

----------------------------------------------------------------------------
(* The specifications parsed against and the tokens supplied *)

S_some == <<"s","o","m","e">>
S_thing == <<"t","h","i","n","g">>
S_foo == <<"f","o","o">>
S_bar == <<"b","a","r">>

\* the parser of the crate documentation and of the tests
TestParser ==
    create_parser(<<"Test Parser">>, <<"Tests arguments">>,
        << create_flag(<<"a">>, <<"This is the a flag">>, <<S_some>>),
           create_flag(<<"b">>, <<"This is the b flag">>, <<S_some, S_thing>>),
           create_flag(<<"c">>, <<"This is the c flag">>, <<S_some>>),
           create_flag(<<"d">>, <<"This is the d flag">>, <<>>) >>,
        << create_arg(S_foo, <<"This is the foo argument">>),
           create_arg(S_bar, <<"This is the bar argument">>) >>)

\* flag a (one option slot), flag d (no slot), argument foo
SmallParser ==
    create_parser(<<"Small">>, <<"a, d and foo">>,
        << create_flag(<<"a">>, <<"This is the a flag">>, <<S_some>>),
           create_flag(<<"d">>, <<"This is the d flag">>, <<>>) >>,
        << create_arg(S_foo, <<"This is the foo argument">>) >>)

\* argument foo only
FooParser ==
    create_parser(<<"Foo">>, <<"foo only">>, <<>>,
        << create_arg(S_foo, <<"This is the foo argument">>) >>)

\* titles declared with upper-case letters
UpperParser ==
    create_parser(<<"Upper">>, <<"upper-case titles">>,
        << create_flag(<<"A">>, <<"This is the A flag">>, <<S_some>>),
           create_flag(<<"d">>, <<"This is the d flag">>, <<>>) >>,
        << create_arg(<<"F","o","o">>, <<"This is the Foo argument">>),
           create_arg(S_bar, <<"This is the bar argument">>) >>)

\* a flag titled h and a flag with the empty title
HParser ==
    create_parser(<<"H">>, <<"h and empty titles">>,
        << create_flag(<<"h">>, <<"This is the h flag">>, <<>>),
           create_flag(<<>>, <<"This is the empty flag">>, <<S_some>>) >>,
        << create_arg(S_foo, <<"This is the foo argument">>) >>)

\* flag a only, no argument
FlagParser ==
    create_parser(<<"Flag">>, <<"a only">>,
        << create_flag(<<"a">>, <<"This is the a flag">>, <<S_some>>) >>,
        <<>>)

\* neither flags nor arguments
EmptyParser == create_parser(<<"Empty">>, <<"nothing declared">>, <<>>, <<>>)

Parsers ==
    {TestParser, SmallParser, FooParser, UpperParser, HParser, FlagParser,
     EmptyParser}

Tokens ==
    { <<"-","a">>, <<"-","A">>, <<"-","b">>, <<"-","d">>, <<"-","h">>,
      <<"-","H">>, <<"-","x">>, <<"-">>,
      S_some, S_foo, S_bar, <<"F","o","o">>, <<"b","a","z">> }

----------------------------------------------------------------------------
(* State machine *)

VARIABLES
    parser,        \* &self
    consumed,      \* the tokens the loop has taken from args so far
    pc,            \* "start", "loop", "done" (returned), "exited"
    is_option, parsed, current_flag, used_flags, used_args, options,
    exit,          \* what was printed before process::exit, and the status
    ret            \* <<ParsedArgs>> once parse has returned, else <<>>

vars == <<parser, consumed, pc, is_option, parsed, current_flag, used_flags,
          used_args, options, exit, ret>>

\* the locals as one record
Locals ==
    [pc |-> pc, is_option |-> is_option, parsed |-> parsed,
     current_flag |-> current_flag, used_flags |-> used_flags,
     used_args |-> used_args, options |-> options, exit |-> exit,
     ret |-> ret]

SetLocals(s) ==
    /\ pc' = s.pc
    /\ is_option' = s.is_option
    /\ parsed' = s.parsed
    /\ current_flag' = s.current_flag
    /\ used_flags' = s.used_flags
    /\ used_args' = s.used_args
    /\ options' = s.options
    /\ exit' = s.exit
    /\ ret' = s.ret

Init ==
    /\ parser \in Parsers
    /\ consumed = <<>>
    /\ pc = "start"
    /\ is_option = FALSE
    /\ parsed = FALSE
    /\ current_flag = NewFlag
    /\ used_flags = <<>>
    /\ used_args = <<>>
    /\ options = [flags |-> <<>>, arguments |-> <<>>]
    /\ exit = NoExit
    /\ ret = <<>>

\* args.next(): the program path is skipped; the locals are set up
SkipPath ==
    /\ pc = "start"
    /\ SetLocals(InitLocals)
    /\ UNCHANGED <<parser, consumed>>

\* the iterator yields arg and the loop body runs on it
Take(arg) ==
    /\ pc = "loop"
    /\ Len(consumed) < MaxArgs
    /\ consumed' = Append(consumed, arg)
    /\ UNCHANGED parser

FlagStep ==
    \E arg \in Tokens :
        /\ IsMarker(arg) /\ ~is_option
        /\ Take(arg)
        /\ SetLocals(FlagBranch(parser, Locals, arg))

FlagAfterFlagStep ==
    \E arg \in Tokens :
        /\ IsMarker(arg) /\ is_option
        /\ Take(arg)
        /\ SetLocals(FlagAfterFlagBranch(parser, Locals, arg))

OptionStep ==
    \E arg \in Tokens :
        /\ ~IsMarker(arg) /\ is_option
        /\ Take(arg)
        /\ SetLocals(OptionBranch(parser, Locals, arg))

ArgumentStep ==
    \E arg \in Tokens :
        /\ ~IsMarker(arg) /\ ~is_option
        /\ Take(arg)
        /\ SetLocals(ArgumentBranch(parser, Locals, arg))

\* the iterator is exhausted: the code after the loop runs, parse returns
EndOfInput ==
    /\ pc = "loop"
    /\ SetLocals(AfterLoop(Locals))
    /\ UNCHANGED <<parser, consumed>>

Next ==
    \/ SkipPath
    \/ FlagStep
    \/ FlagAfterFlagStep
    \/ OptionStep
    \/ ArgumentStep
    \/ EndOfInput

Spec == Init /\ [][Next]_vars

\* parse is straight-line sequential code: a step that can be taken is taken
FairSpec == Spec /\ WF_vars(Next)

TypeOK ==
    /\ parser \in Parsers
    /\ pc \in {"start", "loop", "done", "exited"}
    /\ is_option \in BOOLEAN
    /\ parsed \in BOOLEAN
    /\ Len(consumed) <= MaxArgs

----------------------------------------------------------------------------
(* Vocabulary of the properties *)

NumTaken == Len(consumed)

\* the token the loop body ran on last
LastTok == consumed[Len(consumed)]

\* the token the step under way hands to the loop body
Taking == pc = "loop" /\ Len(consumed') = Len(consumed) + 1

NextTok == consumed'[Len(consumed')]

\* a token with its marker stripped and its letters lower-cased
Fold(tok) ==
    to_ascii_lowercase(IF IsMarker(tok) THEN StripMarker(tok) ELSE tok)

FlagTitled(p, t) == \E i \in 1..Len(p.flags) : p.flags[i].title = t

FlagTitledFolded(p, t) ==
    \E i \in 1..Len(p.flags) : to_ascii_lowercase(p.flags[i].title) = t

ZeroSlotFlag(p, t) ==
    \E i \in 1..Len(p.flags) :
        p.flags[i].title = t /\ Len(p.flags[i].options) = 0

SlotFlag(p, t) ==
    \E i \in 1..Len(p.flags) :
        p.flags[i].title = t /\ Len(p.flags[i].options) > 0

ArgTitled(p, t) == \E i \in 1..Len(p.arguments) : p.arguments[i].title = t

InvalidFlagFmts == {InvalidFlagFmt1, InvalidFlagFmt2}

ErrorFmts ==
    InvalidFlagFmts \cup
    {DuplicateFlagFmt, NoOptionFmt, DuplicateArgFmt, UnknownArgFmt}

Failed(fmt) == pc = "exited" /\ exit.fmt = fmt /\ exit.code = 1 /\ ret = <<>>

FailedNext(fmt) ==
    pc' = "exited" /\ exit'.fmt = fmt /\ exit'.code = 1 /\ ret' = <<>>

\* the tokens the two-token extensions of an input are made of
ExtensionTokens == { <<"-","a">>, <<"-","h">>, S_foo, <<"b","a","z">> }

\* the token sequences appended to an input to extend it
Extensions ==
    {<<>>} \cup {<<t>> : t \in Tokens}
           \cup {<<t, u>> : t, u \in ExtensionTokens}

C1Input == << <<"-","a">>, S_some, <<"-","d">>, S_foo >>

C1Result ==
    [flags |-> << <<<<"a">>, S_some>>, <<<<"d">>, <<>> >> >>,
     arguments |-> <<S_foo>>]

----------------------------------------------------------------------------
(* C1 *)

\* C1 as stated: on the parser with flag a (one slot), flag d (no slot) and
\* argument foo, the input [-a, some, -d, foo] ends in a returned result
\* with flags [(a, some), (d, "")] and arguments [foo]; and a declared, not
\* yet supplied argument title right after an accepted zero-slot flag does
\* not make the parse fail.
C1_AsStated ==
    /\ (parser = SmallParser /\ consumed = C1Input /\ pc \in {"done", "exited"})
          => (pc = "done" /\ ret = <<C1Result>>)
    /\ (/\ pc # "start" /\ NumTaken >= 2
        /\ IsMarker(consumed[NumTaken - 1])
        /\ ZeroSlotFlag(parser, Fold(consumed[NumTaken - 1]))
        /\ ~IsMarker(LastTok)
        /\ ArgTitled(parser, Fold(LastTok))
        /\ \A k \in 1..(NumTaken - 1) : Fold(consumed[k]) # Fold(LastTok))
          => pc # "exited"

\* C1 (amended): on that parser the input [-a, some, -d, foo] fails with
\* FlagTakesNoOption at foo and returns nothing; an accepted zero-slot flag
\* leaves the machine awaiting an option (is_option set), and a declared
\* argument title right after it fails with FlagTakesNoOption and is not
\* recorded as a positional argument.
C1_ZeroSlotFlagThenArgumentFails ==
    /\ (parser = SmallParser /\ consumed = C1Input)
          => (Failed(NoOptionFmt) /\ exit.args[1] = <<"d">>)
    /\ (/\ pc = "loop" /\ NumTaken >= 1
        /\ IsMarker(LastTok)
        /\ ZeroSlotFlag(parser, Fold(LastTok)))
          => (is_option /\ current_flag.title = Fold(LastTok))
    /\ (/\ pc # "start" /\ NumTaken >= 2
        /\ IsMarker(consumed[NumTaken - 1])
        /\ ZeroSlotFlag(parser, Fold(consumed[NumTaken - 1]))
        /\ ~IsMarker(LastTok)
        /\ ArgTitled(parser, Fold(LastTok)))
          => (/\ Failed(NoOptionFmt)
              /\ \A k \in 1..Len(used_args) :
                    \E j \in 1..(NumTaken - 2) :
                        Fold(consumed[j]) = used_args[k].title)

C1_Witness ==
    /\ parser = SmallParser
    /\ consumed = C1Input
    /\ pc = "exited"
    /\ options.flags = << <<<<"a">>, S_some>> >>

----------------------------------------------------------------------------
(* C2 *)

\* C2: whenever a token that does not begin with '-' is taken right after
\* an accepted flag declared with zero option slots, parse fails with
\* FlagTakesNoOption, and the step records the token neither as an option
\* value nor as an argument.
C2_NoOptionAfterZeroSlotFlag ==
    [][ (/\ Taking
         /\ NumTaken >= 1
         /\ IsMarker(LastTok)
         /\ ZeroSlotFlag(parser, Fold(LastTok))
         /\ ~IsMarker(NextTok))
        => (/\ FailedNext(NoOptionFmt)
            /\ options' = options
            /\ used_args' = used_args) ]_vars

C2_Witness ==
    /\ Failed(NoOptionFmt)
    /\ NumTaken >= 2
    /\ ~ArgTitled(parser, Fold(LastTok))
    /\ ZeroSlotFlag(parser, Fold(consumed[NumTaken - 1]))

----------------------------------------------------------------------------
(* C3 *)

\* the positions of marker tokens that fold to a declared flag title an
\* earlier marker token folds to as well
DuplicateFlagPositions ==
    {i \in 1..NumTaken :
        /\ IsMarker(consumed[i])
        /\ FlagTitledFolded(parser, Fold(consumed[i]))
        /\ \E j \in 1..(i - 1) :
              IsMarker(consumed[j]) /\ Fold(consumed[j]) = Fold(consumed[i])}

\* C3: an input in which two marker tokens fold to the same declared flag
\* title never succeeds, and when the second occurrence is reached parse
\* fails with DuplicateFlag at it, in ExpectingToken and in AwaitingOption.
C3_DuplicateFlagAlwaysFails ==
    pc # "start" =>
        /\ (pc = "done" => DuplicateFlagPositions = {})
        /\ (NumTaken \in DuplicateFlagPositions => Failed(DuplicateFlagFmt))

C3_Witness ==
    /\ Failed(DuplicateFlagFmt)
    /\ NumTaken >= 3
    /\ NumTaken \in DuplicateFlagPositions
    /\ IsMarker(consumed[NumTaken - 1])
    /\ Fold(consumed[1]) = Fold(LastTok)

----------------------------------------------------------------------------
(* C4 *)

NoArgumentTwice(args) ==
    \A i, j \in 1..Len(args) : args[i] = args[j] => i = j

\* C4: a non-marker token taken in ExpectingToken that folds to an argument
\* title already recorded as a positional argument makes parse fail with
\* DuplicateArgument, and no returned result lists an argument title twice.
C4_DuplicateArgumentFails ==
    /\ [](pc = "done" => NoArgumentTwice(ret[1].arguments))
    /\ [][ (/\ Taking
            /\ ~is_option
            /\ ~IsMarker(NextTok)
            /\ \E k \in 1..Len(options.arguments) :
                  options.arguments[k] = to_ascii_lowercase(NextTok))
           => FailedNext(DuplicateArgFmt) ]_vars

C4_Witness ==
    /\ Failed(DuplicateArgFmt)
    /\ Len(options.arguments) >= 2
    /\ options.arguments[2] = Fold(LastTok)

----------------------------------------------------------------------------
(* C5 *)

\* C5: a marker token whose folded remainder is no declared flag title and
\* not "h" makes parse fail with UnknownFlag; a non-marker token taken in
\* ExpectingToken whose folded text is no declared argument title makes
\* parse fail with UnknownArgument; such a token is neither skipped nor
\* recorded.  On the parser with argument foo only, [baz] fails with
\* UnknownArgument.
C5_UnknownTokenFails ==
    [][ Taking =>
          /\ (/\ IsMarker(NextTok)
              /\ ~FlagTitled(parser, Fold(NextTok))
              /\ Fold(NextTok) # <<"h">>)
                => (/\ pc' = "exited" /\ exit'.fmt \in InvalidFlagFmts
                    /\ exit'.code = 1 /\ ret' = <<>>
                    /\ used_flags' = used_flags
                    /\ current_flag' = current_flag)
          /\ (/\ ~IsMarker(NextTok)
              /\ ~is_option
              /\ ~ArgTitled(parser, to_ascii_lowercase(NextTok)))
                => (/\ FailedNext(UnknownArgFmt)
                    /\ options' = options
                    /\ used_args' = used_args) ]_vars

C5_Witness ==
    /\ parser = FooParser
    /\ consumed = << <<"b","a","z">> >>
    /\ Failed(UnknownArgFmt)

----------------------------------------------------------------------------
(* C6 *)

\* C6: on a parser declaring no flag titled h, a token that folds to -h
\* and is reached without an earlier failure ends parse in the help outcome:
\* the usage text alone is printed, the format is that of no error, nothing
\* is returned, and whatever tokens follow, the outcome of the whole parse
\* is the same and none of them is taken.
C6_HelpShortCircuits ==
    (/\ pc # "start" /\ NumTaken >= 1
     /\ to_ascii_lowercase(LastTok) = <<"-","h">>
     /\ ~FlagTitled(parser, <<"h">>))
    => /\ pc = "exited"
       /\ exit.fmt = HelpFmt
       /\ exit.args = <<help(parser)>>
       /\ exit.fmt \notin ErrorFmts
       /\ ret = <<>>
       /\ \A ext \in Extensions :
             LET r == parse(parser, consumed \o ext)
             IN r.s.exit = exit /\ r.s.pc = "exited" /\ r.n = NumTaken

C6_Witness ==
    /\ pc = "exited"
    /\ exit.fmt = HelpFmt
    /\ NumTaken >= 2
    /\ IsMarker(consumed[NumTaken - 1])
    /\ NumTaken < MaxArgs

----------------------------------------------------------------------------
(* C7 *)

\* the positions of marker tokens followed by no non-marker token
BareFlagPositions ==
    {i \in 1..NumTaken :
        /\ IsMarker(consumed[i])
        /\ (i = NumTaken \/ IsMarker(consumed[i + 1]))}

----------------------------------------------------------------------------
(* C8 *)

\* C8: in every returned result every flag accepted from the input has at
\* least one entry in the flag list, also a flag that is the last token and
\* a flag directly followed by another flag.
C8_EveryUsedFlagIsListed ==
    pc = "done" =>
        /\ \A i \in 1..NumTaken :
              IsMarker(consumed[i]) =>
                  \E k \in 1..Len(ret[1].flags) :
                      ret[1].flags[k][1] = Fold(consumed[i])
        /\ \A j \in 1..Len(used_flags) :
              \E k \in 1..Len(ret[1].flags) :
                  ret[1].flags[k][1] = used_flags[j].title

C8_Witness ==
    /\ pc = "done"
    /\ NumTaken >= 3
    /\ IsMarker(consumed[1])
    /\ IsMarker(consumed[2])
    /\ IsMarker(LastTok)

----------------------------------------------------------------------------
(* C9 *)

\* C9: a validation failure is decided by the first offending token: once
\* an error message is printed the process has exited and nothing is
\* returned, and every input that extends the tokens taken so far fails
\* with the same failure, after the same number of tokens taken.
C9_FailureIsTerminal ==
    exit.fmt \in ErrorFmts =>
        /\ pc = "exited"
        /\ exit.code = 1
        /\ ret = <<>>
        /\ NumTaken >= 1
        /\ \A ext \in Extensions :
              LET r == parse(parser, consumed \o ext)
              IN /\ r.s.pc = "exited"
                 /\ r.s.exit = exit
                 /\ r.s.ret = <<>>
                 /\ r.n = NumTaken

C9_Witness ==
    /\ pc = "exited"
    /\ exit.fmt \in ErrorFmts
    /\ NumTaken = 2
    /\ Len(options.flags) + Len(options.arguments) >= 1

----------------------------------------------------------------------------
(* C10 *)

\* C10 as stated: every failure carries the token whose processing caused
\* it (here up to the marker and the case of its letters) and the usage
\* text of the parser.
C10_AsStated ==
    exit.fmt \in ErrorFmts =>
        /\ Len(exit.args) = 2
        /\ Fold(exit.args[1]) = Fold(LastTok)
        /\ exit.args[2] = help(parser)

\* C10 (amended): every failure is paired with the usage text of the
\* parser.  UnknownFlag and DuplicateFlag carry the offending token with its
\* marker stripped and its letters lower-cased, DuplicateArgument the
\* offending token lower-cased, UnknownArgument the offending token as
\* given; FlagTakesNoOption carries the title of the current flag, that of
\* the marker token before the offending one, and not the offending token.
C10_FailureCarriesTextAndUsage ==
    exit.fmt \in ErrorFmts =>
        /\ Len(exit.args) = 2
        /\ exit.args[2] = help(parser)
        /\ NumTaken >= 1
        /\ (exit.fmt \in InvalidFlagFmts \cup {DuplicateFlagFmt}
              => (/\ IsMarker(LastTok)
                  /\ exit.args[1] = to_ascii_lowercase(StripMarker(LastTok))))
        /\ (exit.fmt = DuplicateArgFmt
              => (~IsMarker(LastTok)
                  /\ exit.args[1] = to_ascii_lowercase(LastTok)))
        /\ (exit.fmt = UnknownArgFmt
              => (~IsMarker(LastTok) /\ exit.args[1] = LastTok))
        /\ (exit.fmt = NoOptionFmt
              => (/\ ~IsMarker(LastTok)
                  /\ NumTaken >= 2
                  /\ IsMarker(consumed[NumTaken - 1])
                  /\ exit.args[1] = Fold(consumed[NumTaken - 1])
                  /\ exit.args[1] = current_flag.title))

C10_Witness ==
    /\ Failed(NoOptionFmt)
    /\ exit.args[1] # Fold(LastTok)
    /\ exit.args[2] = help(parser)

----------------------------------------------------------------------------
(* C11 *)

RECURSIVE FlagTokens(_)
\* the folded marker tokens of an input, in input order
FlagTokens(toks) ==
    IF toks = <<>> THEN <<>>
    ELSE IF IsMarker(toks[Len(toks)])
         THEN Append(FlagTokens(SubSeq(toks, 1, Len(toks) - 1)),
                     Fold(toks[Len(toks)]))
         ELSE FlagTokens(SubSeq(toks, 1, Len(toks) - 1))

RECURSIVE PositionalTokens(_)
\* the non-marker tokens of an input that do not directly follow a marker
\* token, lower-cased, in input order
PositionalTokens(toks) ==
    IF toks = <<>> THEN <<>>
    ELSE LET n == Len(toks)
             front == PositionalTokens(SubSeq(toks, 1, n - 1))
         IN IF ~IsMarker(toks[n]) /\ (n = 1 \/ ~IsMarker(toks[n - 1]))
            THEN Append(front, to_ascii_lowercase(toks[n]))
            ELSE front

FlagTitles(fl) == [k \in 1..Len(fl) |-> fl[k][1]]

\* C11: in every returned result the argument list holds one entry per
\* token recognized as a positional argument, in the order of those tokens,
\* and the entries of the flags supplied stand in the flag list in the order
\* of the flag tokens, not in the order of declaration.
C11_ResultKeepsInputOrder ==
    pc = "done" =>
        /\ ret[1].arguments = PositionalTokens(consumed)
        /\ (FlagTokens(consumed) # <<>>
              => FlagTitles(ret[1].flags) = FlagTokens(consumed))

C11_Witness ==
    /\ pc = "done"
    /\ parser = TestParser
    /\ ret[1].arguments = <<S_foo, S_bar>>
    /\ FlagTitles(ret[1].flags) = << <<"b">>, <<"a">> >>

----------------------------------------------------------------------------
(* C12 *)

\* C12 as stated: a marker token is accepted as a declared flag exactly
\* when its folded remainder equals the lower-cased title of that flag, so
\* a flag declared with upper-case letters is matchable, and a second token
\* folding to the same lower-cased title is a DuplicateFlag.
C12_AsStated ==
    (pc # "start" /\ NumTaken >= 1 /\ IsMarker(LastTok)) =>
        LET earlier == \E j \in 1..(NumTaken - 1) :
                          IsMarker(consumed[j])
                          /\ Fold(consumed[j]) = Fold(LastTok)
        IN /\ (FlagTitledFolded(parser, Fold(LastTok)) /\ ~earlier)
                => (/\ pc = "loop"
                    /\ to_ascii_lowercase(current_flag.title) = Fold(LastTok))
           /\ (FlagTitledFolded(parser, Fold(LastTok)) /\ earlier)
                => Failed(DuplicateFlagFmt)
           /\ pc = "loop" => FlagTitledFolded(parser, Fold(LastTok))

----------------------------------------------------------------------------
(* C13 *)

\* C13: argument matching lower-cases the token only: a non-marker token
\* taken in ExpectingToken is recognized exactly when its lower-cased text
\* equals a title as declared; the entry appended is that title; an unused
\* title is accepted, a used one is a DuplicateArgument, anything else an
\* UnknownArgument; an argument declared with an upper-case letter is never
\* recognized.
C13_ArgumentMatchFoldsTokenOnly ==
    /\ [](\A k \in 1..Len(used_args) :
             /\ used_args[k].title = to_ascii_lowercase(used_args[k].title)
             /\ options.arguments[k] = used_args[k].title)
    /\ [][ (Taking /\ ~is_option /\ ~IsMarker(NextTok)) =>
             LET x == to_ascii_lowercase(NextTok)
                 used == \E k \in 1..Len(used_args) : used_args[k].title = x
             IN /\ (pc' = "loop") <=> (ArgTitled(parser, x) /\ ~used)
                /\ (pc' = "loop") =>
                      (/\ options'.arguments = Append(options.arguments, x)
                       /\ Len(used_args') = Len(used_args) + 1
                       /\ used_args'[Len(used_args')].title = x
                       /\ options'.flags = options.flags)
                /\ (ArgTitled(parser, x) /\ used) => FailedNext(DuplicateArgFmt)
                /\ ~ArgTitled(parser, x) => FailedNext(UnknownArgFmt) ]_vars

C13_Witness ==
    /\ parser = UpperParser
    /\ NumTaken >= 2
    /\ LastTok = <<"F","o","o">>
    /\ Failed(UnknownArgFmt)
    /\ options.arguments = <<S_bar>>

----------------------------------------------------------------------------
(* C14 *)

Terminal == pc \in {"done", "exited"}

C14_OneOutcome ==
    /\ pc \in {"start", "loop"} => (ret = <<>> /\ exit = NoExit)
    /\ pc = "done" => (Len(ret) = 1 /\ exit = NoExit)
    /\ pc = "exited" =>
          (/\ ret = <<>>
           /\ exit.code = 1
           /\ exit.fmt \in ErrorFmts \cup {HelpFmt})
    /\ Terminal => parse(parser, consumed) = [s |-> Locals, n |-> NumTaken]

C14_LeftToRight ==
    /\ ~Terminal
    /\ \/ consumed' = consumed
       \/ /\ Len(consumed') = Len(consumed) + 1
          /\ SubSeq(consumed', 1, Len(consumed)) = consumed

\* C14: parse takes the tokens one by one from left to right, never goes
\* back to a token taken, and always ends, in exactly one outcome: a
\* returned result, the help outcome, or one validation failure; the
\* outcome is that of the whole run on the tokens taken.
C14_ParseTerminatesInOneOutcome ==
    /\ []C14_OneOutcome
    /\ [][C14_LeftToRight]_vars
    /\ <>Terminal

C14_Witness ==
    /\ pc = "done"
    /\ NumTaken >= 3
    /\ Len(ret[1].arguments) >= 1
    /\ Len(ret[1].flags) >= 1

----------------------------------------------------------------------------
(* C15 *)

\* the positions of a piece of text in a rendered text
Positions(text, piece) == {i \in 1..Len(text) : text[i] = piece}

\* the position of the k-th occurrence of a piece
KthPosition(text, piece, k) ==
    CHOOSE i \in Positions(text, piece) :
        Cardinality({j \in Positions(text, piece) : j <= i}) = k

\* the text continues with the string str right after position i
FollowedBy(text, i, str) == SubSeq(text, i + 1, i + Len(str)) = str

RECURSIVE SlotsBefore(_, _)
\* the number of option slots of the flags before the k-th
SlotsBefore(fl, k) ==
    IF k <= 1 THEN 0 ELSE SlotsBefore(fl, k - 1) + Len(fl[k - 1].options)

\* the usage text printed at an exit: the last argument of the format
PrintedUsage == exit.args[Len(exit.args)]

\* C15: the usage text has an Options block exactly when the parser has a
\* flag and an Arguments block exactly when it has an argument, Options
\* before Arguments; it has one line per flag and per argument, in the
\* order of declaration, and a flag line lists the option-slot labels of
\* that flag in the order of declaration.
C15_UsageTextLayout ==
    exit.code = 1 =>
        LET u == PrintedUsage
            fl == parser.flags
            ar == parser.arguments
            flagLines == Positions(u, "    -")
            argLines == Positions(u, "    ")
            slots == Positions(u, "<")
        IN /\ (Positions(u, " Options:\n") # {}) <=> (Len(fl) > 0)
           /\ (Positions(u, " Arguments:\n") # {}) <=> (Len(ar) > 0)
           /\ Cardinality(Positions(u, " Options:\n")) <= 1
           /\ Cardinality(Positions(u, " Arguments:\n")) <= 1
           /\ \A i \in Positions(u, " Options:\n") :
                 /\ \A j \in Positions(u, " Arguments:\n") : i < j
                 /\ \A j \in flagLines : i < j
           /\ \A i \in Positions(u, " Arguments:\n") :
                 /\ \A j \in flagLines \cup slots : j < i
                 /\ \A j \in argLines : i < j
           /\ Cardinality(flagLines) = Len(fl)
           /\ Cardinality(argLines) = Len(ar)
           /\ Cardinality(slots) = SlotsBefore(fl, Len(fl) + 1)
           /\ \A k \in 1..Len(fl) :
                 LET at == KthPosition(u, "    -", k)
                 IN /\ FollowedBy(u, at, fl[k].title \o <<" ">>)
                    /\ \A j \in 1..Len(fl[k].options) :
                          LET sl == KthPosition(u, "<", SlotsBefore(fl, k) + j)
                          IN /\ at < sl
                             /\ (k < Len(fl)
                                   => sl < KthPosition(u, "    -", k + 1))
                             /\ FollowedBy(u, sl, fl[k].options[j] \o <<"> ">>)
           /\ \A k \in 1..Len(ar) :
                 FollowedBy(u, KthPosition(u, "    ", k),
                            ar[k].title \o <<" :\n\t ">>)

C15_Witness ==
    /\ exit.code = 1
    /\ parser = TestParser
    /\ PrintedUsage = help(TestParser)
    /\ Cardinality(Positions(PrintedUsage, "<")) = 4

----------------------------------------------------------------------------
(* C16 *)

FlagOptions(fl) == [k \in 1..Len(fl) |-> fl[k].options]

DeclaredTitles(xs) == [k \in 1..Len(xs) |-> xs[k].title]

\* C16: create_parser keeps the flags in the order given, each with the
\* option-slot list passed to create_flag: the parser of the tests has the
\* flags a, b, c, d in that order with the slots [some], [some, thing],
\* [some] and none, so its fourth flag has zero option slots; the parser
\* built from the flags h (no slot) and "" (one slot) has them in that order.
C16_ParserKeepsFlagsAsGiven ==
    /\ parser.project_title = <<"Test Parser">> =>
          /\ DeclaredTitles(parser.flags) = << <<"a">>, <<"b">>, <<"c">>, <<"d">> >>
          /\ FlagOptions(parser.flags) =
                << <<S_some>>, <<S_some, S_thing>>, <<S_some>>, <<>> >>
          /\ Len(parser.flags[4].options) = 0
          /\ DeclaredTitles(parser.arguments) = <<S_foo, S_bar>>
    /\ parser.project_title = <<"H">> =>
          /\ DeclaredTitles(parser.flags) = << <<"h">>, <<>> >>
          /\ FlagOptions(parser.flags) = << <<>>, <<S_some>> >>

C16_Witness ==
    /\ parser.project_title = <<"Test Parser">>
    /\ pc = "loop"
    /\ current_flag = parser.flags[4]
    /\ Len(current_flag.options) = 0

----------------------------------------------------------------------------
(* C17 *)

\* C17: when the current flag declares at least one option slot, the first
\* non-marker token after it is recorded, lower-cased, as the option value
\* of that flag and the machine is back in ExpectingToken; one value is
\* captured however many slots are declared, so a second non-marker token
\* in a row is classified as a positional argument, an UnknownArgument when
\* it is no declared argument title.
C17_OneOptionValuePerFlag ==
    [][ /\ (/\ Taking
            /\ is_option
            /\ ~IsMarker(NextTok)
            /\ Len(current_flag.options) >= 1)
          => (/\ pc' = "loop"
              /\ exit' = NoExit
              /\ options'.flags =
                    Append(options.flags,
                           <<current_flag.title, to_ascii_lowercase(NextTok)>>)
              /\ options'.arguments = options.arguments
              /\ ~is_option'
              /\ current_flag' = current_flag)
        /\ (/\ Taking
            /\ NumTaken >= 2
            /\ IsMarker(consumed[NumTaken - 1])
            /\ ~IsMarker(LastTok)
            /\ ~IsMarker(NextTok))
          => (/\ ~is_option
              /\ options'.flags = options.flags
              /\ (~ArgTitled(parser, to_ascii_lowercase(NextTok))
                    => FailedNext(UnknownArgFmt))
              /\ (pc' = "loop"
                    => options'.arguments =
                          Append(options.arguments,
                                 to_ascii_lowercase(NextTok)))) ]_vars

C17_Witness ==
    /\ Failed(UnknownArgFmt)
    /\ NumTaken >= 3
    /\ consumed[NumTaken - 2] = <<"-","b">>
    /\ consumed[NumTaken - 1] = <<"F","o","o">>
    /\ LastTok = S_some
    /\ options.flags[Len(options.flags)] = << <<"b">>, S_foo >>

----------------------------------------------------------------------------
(* C18 *)

Bare == <<"-">>

\* C18 as stated: a bare "-" is never classified as a flag: it never ends
\* in UnknownFlag or DuplicateFlag and never becomes the current flag.
C18_AsStated ==
    (pc # "start" /\ NumTaken >= 1 /\ LastTok = Bare) =>
        /\ exit.fmt \notin InvalidFlagFmts \cup {DuplicateFlagFmt}
        /\ (pc = "loop" =>
              \A k \in 1..Len(used_flags) : used_flags[k].title # <<>>)

\* C18 (amended): a bare "-" is classified as a flag with the empty title,
\* in ExpectingToken and in AwaitingOption: it is never matched against the
\* argument titles; it fails with UnknownFlag (carrying the empty string)
\* when no flag with the empty title is declared, is accepted as that flag
\* and becomes the current flag when one is declared and unused, and fails
\* with DuplicateFlag when that flag was used before.
C18_BareMarkerIsAFlag ==
    [][ (Taking /\ NextTok = Bare) =>
          LET used == \E k \in 1..Len(used_flags) : used_flags[k].title = <<>>
          IN /\ used_args' = used_args
             /\ options'.arguments = options.arguments
             /\ exit'.fmt \notin {UnknownArgFmt, DuplicateArgFmt, NoOptionFmt}
             /\ ~FlagTitled(parser, <<>>)
                   => (/\ pc' = "exited"
                       /\ exit'.fmt \in InvalidFlagFmts
                       /\ exit'.args[1] = <<>>
                       /\ ret' = <<>>)
             /\ (FlagTitled(parser, <<>>) /\ ~used)
                   => (/\ pc' = "loop"
                       /\ is_option'
                       /\ current_flag'.title = <<>>
                       /\ current_flag' \in {parser.flags[k] :
                                               k \in 1..Len(parser.flags)}
                       /\ used_flags' = Append(used_flags, current_flag'))
             /\ (FlagTitled(parser, <<>>) /\ used)
                   => FailedNext(DuplicateFlagFmt) ]_vars

C18_Witness ==
    /\ pc = "loop"
    /\ NumTaken >= 2
    /\ LastTok = Bare
    /\ Len(used_flags) >= 1
    /\ used_flags[Len(used_flags)].title = <<>>
    /\ current_flag = used_flags[Len(used_flags)]

----------------------------------------------------------------------------
(* C19 *)

\* C19 as stated: in every returned result every entry of the flag list
\* has the title of a declared flag accepted from a marker token of the
\* input; an input without flag tokens returns an empty flag list.
C19_AsStated ==
    pc = "done" =>
        \A k \in 1..Len(ret[1].flags) :
            /\ FlagTitled(parser, ret[1].flags[k][1])
            /\ \E i \in 1..NumTaken :
                  IsMarker(consumed[i])
                  /\ Fold(consumed[i]) = ret[1].flags[k][1]

----------------------------------------------------------------------------
(* C20 *)

DistinctFlagTitles(p) ==
    \A i, j \in 1..Len(p.flags) :
        p.flags[i].title = p.flags[j].title => i = j

\* C20: against a parser with pairwise distinct flag titles no returned
\* result has two entries of one flag title: a flag recorded when the next
\* marker token arrived or when its option value was taken is not recorded
\* again at the end of the input.
C20_NoFlagTitleTwice ==
    (pc = "done" /\ DistinctFlagTitles(parser)) =>
        \A i, j \in 1..Len(ret[1].flags) :
            ret[1].flags[i][1] = ret[1].flags[j][1] => i = j

C20_Witness ==
    /\ pc = "done"
    /\ parsed
    /\ Len(ret[1].flags) >= 2
    /\ ~IsMarker(LastTok)
    /\ ret[1].flags[1][2] = <<>>

----------------------------------------------------------------------------
(* C21 *)

C21Input == << <<"-","a">>, S_foo, S_foo >>

C21Result ==
    [flags |-> << <<<<"a">>, S_foo>> >>, arguments |-> <<S_foo>>]

\* C21: a non-marker token taken as the option value of a flag with option
\* slots leaves the used arguments and the argument list of the result as
\* they are and never fails, also when it is a declared argument title,
\* used before or not; a declared argument title that stands in no entry of
\* the argument list is then still accepted as a positional argument, so on
\* a parser with flag a (one slot) and argument foo the input
\* [-a, foo, foo] returns flags [(a, foo)] and arguments [foo].
C21_OptionValueLeavesArgumentsAlone ==
    /\ []((consumed = C21Input /\ FlagTitled(parser, <<"a">>)
              /\ ArgTitled(parser, S_foo))
            => (/\ pc \in {"loop", "done"}
                /\ exit = NoExit
                /\ options.arguments = <<S_foo>>
                /\ (pc = "done" => ret = <<C21Result>>)))
    /\ [][ /\ (/\ Taking
               /\ is_option
               /\ ~IsMarker(NextTok)
               /\ Len(current_flag.options) >= 1)
             => (/\ used_args' = used_args
                 /\ options'.arguments = options.arguments
                 /\ pc' = "loop"
                 /\ exit' = NoExit)
           /\ (/\ Taking
               /\ ~is_option
               /\ ~IsMarker(NextTok)
               /\ ArgTitled(parser, to_ascii_lowercase(NextTok))
               /\ \A k \in 1..Len(options.arguments) :
                     options.arguments[k] # to_ascii_lowercase(NextTok))
             => (/\ pc' = "loop"
                 /\ options'.arguments =
                       Append(options.arguments,
                              to_ascii_lowercase(NextTok))) ]_vars

C21_Witness ==
    /\ parser = SmallParser
    /\ consumed = C21Input
    /\ pc = "done"
    /\ ret = <<C21Result>>
    /\ used_args = <<parser.arguments[1]>>

====
